---- MODULE Spec2Model ----
(***************************************************************************)
(* ata^2: the producer loop of main() (main.rs), the consumer thread it    *)
(* spawns, and prompt::request() with its helpers (prompt.rs).             *)
(*                                                                         *)
(* Texts are sequences of one-character strings.  A line of the response   *)
(* body (one element of data_buffer.split("\n\n")) is a record that gives  *)
(* what the code inspects of it: its prefix, whether line[6..] is a valid  *)
(* slice, and what serde_json makes of the rest.                           *)
(***************************************************************************)
EXTENDS Integers, Sequences, FiniteSets, TLC

\* ------------------------------------------------------------------ bounds
MaxLines == 2       \* non-empty lines the producer sends before it stops reading lines
MaxChunks == 2      \* body chunks the server delivers per attempt
MaxEvents == 2      \* lines (split by a blank line) per body chunk
MaxCount == 4       \* largest count should_retry is called with on its own
MaxLen == 2         \* characters per fragment when post_process is called on its own
MaxFrags == 2       \* fragments passed to post_process, one after the other
ChanCap == 1         \* capacity of the channel whose Sender Readline::handle is given

\* --------------------------------------------------------------- constants
max_tries == 3

BS == "\\"
NL == "\n"

\* the lines the user types; <<>> is the empty line.  Neither loop looks into a
\* non-empty line, so the n-th non-empty line typed is taken to be the text n,
\* which keeps the lines of one run apart.
Lines == {<<n>> : n \in 1..MaxLines}
NoLine == <<>>

\* content texts the server streams in the concurrent specification
Texts == {<<"h", "i">>}

\* ------------------------------------------------------------- JSON values
JNull == [t |-> "null", s |-> <<>>]
JNum == [t |-> "num", s |-> <<>>]
JStr(s) == [t |-> "str", s |-> s]

ServerError == <<"server_error">>
OtherError == <<"invalid_request_error">>
Message == <<"m">>

\* value.as_str().unwrap().to_string(): panics unless the value is a string
value2unquoted_text(value) ==
    IF value.t = "str" THEN [panic |-> FALSE, s |-> value.s]
                       ELSE [panic |-> TRUE, s |-> <<>>]

\* --------------------------------------------------- lines of the response
\* prefix: "data" (starts_with("data:")), "raw" (non-empty, other), "empty"
\* slice:  line[6..] is in range and on a character boundary
\* body:   "[DONE]", "json" (serde_json::from_str succeeds), "nonjson"
\* top:    which key the JSON value has: "choices", "error", "none"
\* delta:  choices[0].delta: "absent", "nocontent", "content"
\* content, etype, emsg: delta.content, error.type, error.message
Ev(prefix, slice, body, top, delta, content, etype, emsg) ==
    [prefix |-> prefix, slice |-> slice, body |-> body, top |-> top,
     delta |-> delta, content |-> content, etype |-> etype, emsg |-> emsg]

EvEmpty == Ev("empty", FALSE, "nonjson", "none", "absent", JNull, JNull, JNull)
EvDataShort == Ev("data", FALSE, "nonjson", "none", "absent", JNull, JNull, JNull)
EvDone == Ev("data", TRUE, "[DONE]", "none", "absent", JNull, JNull, JNull)
EvDataNonJson == Ev("data", TRUE, "nonjson", "none", "absent", JNull, JNull, JNull)
EvNoDelta == Ev("data", TRUE, "json", "choices", "absent", JNull, JNull, JNull)
EvRole == Ev("data", TRUE, "json", "choices", "nocontent", JNull, JNull, JNull)
EvContent(text) == Ev("data", TRUE, "json", "choices", "content", JStr(text), JNull, JNull)
EvContentNull == Ev("data", TRUE, "json", "choices", "content", JNull, JNull, JNull)
EvDataError(etype) == Ev("data", TRUE, "json", "error", "absent", JNull, etype, JStr(Message))
EvDataErrorNoMsg == Ev("data", TRUE, "json", "error", "absent", JNull, JStr(ServerError), JNull)
EvUnrecognized == Ev("data", TRUE, "json", "none", "absent", JNull, JNull, JNull)
EvRawNonJson == Ev("raw", FALSE, "nonjson", "none", "absent", JNull, JNull, JNull)
EvRawNoError == Ev("raw", FALSE, "json", "none", "absent", JNull, JNull, JNull)
EvRawError(etype) == Ev("raw", FALSE, "json", "error", "absent", JNull, etype, JStr(Message))

ErrorTypes == {JStr(ServerError), JStr(OtherError), JNull, JNum}

RawEvents == {EvRawNonJson, EvRawNoError} \cup {EvRawError(t) : t \in ErrorTypes}

Events ==
    {EvEmpty, EvDataShort, EvDone, EvDataNonJson, EvNoDelta, EvRole,
     EvContentNull, EvDataErrorNoMsg, EvUnrecognized}
    \cup {EvContent(t) : t \in Texts}
    \cup {EvDataError(t) : t \in {JStr(ServerError), JStr(OtherError)}}
    \cup RawEvents

\* ---------------------------------------------------------- pure functions
RECURSIVE Concat(_)
Concat(ss) == IF ss = <<>> THEN <<>> ELSE Head(ss) \o Concat(Tail(ss))

\* str::replace("\\n", "\n")
RECURSIVE ReplaceNewlines(_)
ReplaceNewlines(s) ==
    IF s = <<>> THEN <<>>
    ELSE IF Len(s) >= 2 /\ s[1] = BS /\ s[2] = "n"
         THEN <<NL>> \o ReplaceNewlines(Tail(Tail(s)))
         ELSE <<s[1]>> \o ReplaceNewlines(Tail(s))

\* the characters of the fragments passed to post_process on its own
Chars == {BS, "n", "a"}

\* every text of at most MaxLen characters
FragTexts == UNION {[1..n -> Chars] : n \in 0..MaxLen}

\* str::ends_with("\\")
EndsWithBS(text) == text # <<>> /\ text[Len(text)] = BS

\* store_and_do_nothing that returns the empty text without the push
store_and_do_nothing_NoPush(buf, text) == [out |-> <<>>, buf |-> buf]

store_and_do_nothing(buf, text) == [out |-> <<>>, buf |-> Append(buf, text)]

\* join_and_clear without the replace
join_and_clear_NoReplace(buf, text) ==
    [out |-> Concat(buf) \o text, buf |-> <<>>]

join_and_clear(buf, text) ==
    [out |-> ReplaceNewlines(Concat(buf) \o text), buf |-> <<>>]

\* fix_newlines that joins and replaces also when the buffer is empty
fix_newlines_AlwaysJoin(buf, text) ==
    IF EndsWithBS(text) THEN store_and_do_nothing(buf, text)
    ELSE join_and_clear(buf, text)

fix_newlines(buf, text) ==
    IF EndsWithBS(text) THEN store_and_do_nothing(buf, text)
    ELSE IF buf # <<>> THEN join_and_clear(buf, text)
    ELSE [out |-> text, buf |-> buf]

post_process(buf, text) == fix_newlines(buf, text)

\* should_retry with count <= max_tries
should_retry_OffByOne(line, cnt) ==
    IF line.body # "json" THEN "false"
    ELSE IF line.top = "error"
         THEN IF value2unquoted_text(line.etype).panic THEN "panic"
              ELSE IF cnt <= max_tries /\ value2unquoted_text(line.etype).s = ServerError
                   THEN "true"
                   ELSE "false"
         ELSE "false"

\* "true" / "false" as returned, "panic" when value2unquoted_text unwraps None
should_retry(line, cnt) ==
    IF line.body # "json" THEN "false"
    ELSE IF line.top = "error"
         THEN IF value2unquoted_text(line.etype).panic THEN "panic"
              ELSE IF cnt < max_tries /\ value2unquoted_text(line.etype).s = ServerError
                   THEN "true"
                   ELSE "false"
         ELSE "false"


\* ------------------------------------------------------------------- state
VARIABLES
    tty,                  \* atty::is(Stdin): interactive input
    double_ctrlc,         \* config.ui.double_ctrlc
    is_running,           \* AtomicBool shared by both threads
    abort,                \* AtomicBool shared by both threads
    abortBy,              \* history: which arm stored abort = true last
    abortWhen,            \* history: "sleep" when that store fell into a backoff sleep
    queue,                \* the mpsc channel (tx, rx): items sent, not yet received
    ppc,                  \* producer (main thread) position
    readline,             \* main(): which result readline holds
    loaded,               \* main(): what is_running.load() returned in this iteration
    line,                 \* main(): the line of an Ok result
    had_first_interrupt,  \* AtomicBool of main()
    already_read,         \* main(): piped stdin was read
    cpc,                  \* consumer thread position
    cur,                  \* consumer: the line being processed
    count,                \* consumer: attempt counter passed to request()
    had_first_success,    \* request(): a content delta was rendered
    print_buffer,         \* request(): Vec<String> of held-back fragments
    events_left,          \* request(): lines of the current chunk not yet looked at
    chunks,               \* chunks the body has yielded in this attempt
    rendered,             \* text print_and_flush wrote for the current line
    sent,                 \* history: every item the producer sent, in order
    started,              \* history: lines the consumer began to process, in order
    finished,             \* history: number of lines whose retry loop has ended
    sleeps,               \* history: backoff sleeps taken for the current line
    attempts,             \* history: how each attempt of the current line ended
    abortAtChunk,         \* history: who had set abort when the current chunk arrived
    arg_line,             \* should_retry called on its own: the line argument
    arg_count,            \* should_retry called on its own: the count argument
    result,               \* should_retry called on its own: what the call did
    fragments,            \* post_process called on its own: the texts to pass, in order
    returned              \* post_process called on its own: what each call returned

shared == <<is_running, abort, abortBy, abortWhen, queue>>
conf == <<tty, double_ctrlc>>
call == <<arg_line, arg_count, result, fragments, returned>>
env == <<conf, call>>
pvars == <<ppc, readline, loaded, line, had_first_interrupt, already_read, sent>>
reqvars == <<had_first_success, print_buffer, events_left, chunks, rendered, abortAtChunk>>
cvars == <<cpc, cur, count, started, finished, sleeps, attempts>>
vars == <<env, shared, pvars, cvars, reqvars>>

Some(l) == [some |-> TRUE, line |-> l]
None == [some |-> FALSE, line |-> NoLine]

\* main.rs 91, 128-131, 187: the state when both loops start
Start ==
    /\ is_running = FALSE
    /\ abort = FALSE
    /\ abortBy = "none"
    /\ abortWhen = "none"
    /\ queue = <<>>
    /\ ppc = "read"
    /\ readline = "none"
    /\ loaded = FALSE
    /\ line = NoLine
    /\ had_first_interrupt = FALSE
    /\ already_read = FALSE
    /\ cpc = "recv"
    /\ cur = NoLine
    /\ count = 1
    /\ had_first_success = FALSE
    /\ print_buffer = <<>>
    /\ events_left = 0
    /\ chunks = 0
    /\ rendered = <<>>
    /\ sent = <<>>
    /\ started = <<>>
    /\ finished = 0
    /\ sleeps = 0
    /\ attempts = <<>>
    /\ abortAtChunk = "none"

NoCall ==
    /\ arg_line = EvEmpty
    /\ arg_count = 1
    /\ result = "none"
    /\ fragments = <<>>
    /\ returned = <<>>

Init ==
    /\ tty \in BOOLEAN
    /\ double_ctrlc \in BOOLEAN
    /\ Start
    /\ NoCall

\* ---------------------------------------------------------------- producer
\* the receiver is dropped once the consumer thread has ended or unwound
ReceiverDropped == cpc \in {"done", "panicked"}

\* the lines (not the sentinel) sent so far
SentLines == SelectSeq(sent, LAMBDA m : m.some)

LinesSent == Len(SentLines)

\* the loop body is over (continue, or the end of the Ok arm): back to readline
NextRead ==
    /\ ppc' = "read"
    /\ readline' = "none"
    /\ loaded' = FALSE
    /\ line' = NoLine

\* ProducerRead whose piped branch reads standard input again on every pass
ProducerRead_ReadAgain(r, l) ==
    /\ ppc = "read"
    /\ IF tty THEN r \in {"Ok", "Interrupted", "Eof", "Err"}
              ELSE r = "Ok"
    /\ IF r = "Ok" THEN l # NoLine => l = <<LinesSent + 1>>
                   ELSE l = NoLine
    /\ readline' = r
    /\ line' = l
    /\ already_read' = (already_read \/ ~tty)
    /\ ppc' = "match"
    /\ UNCHANGED <<env, shared, loaded, had_first_interrupt, sent, cvars, reqvars>>

\* main.rs 194-203: readline is computed
\*   interactive: rl.readline("") yields Ok(line), Interrupted, Eof or another error
\*   piped: Ok(buf) of read_to_string the first time, Eof afterwards
ProducerRead(r, l) ==
    /\ ppc = "read"
    /\ IF tty THEN r \in {"Ok", "Interrupted", "Eof", "Err"}
              ELSE r = (IF already_read THEN "Eof" ELSE "Ok")
    /\ IF r = "Ok" THEN l # NoLine => l = <<LinesSent + 1>>
                   ELSE l = NoLine
    /\ readline' = r
    /\ line' = l
    /\ already_read' = (already_read \/ ~tty)
    /\ ppc' = "match"
    /\ UNCHANGED <<env, shared, loaded, had_first_interrupt, sent, cvars, reqvars>>

\* main.rs 198: stdin.read_to_string(&mut buf)? returns the error from main()
ProducerStdinErr ==
    /\ ppc = "read"
    /\ ~tty /\ ~already_read
    /\ ppc' = "exited"
    /\ UNCHANGED <<env, shared, readline, loaded, line, had_first_interrupt, already_read,
                   sent, cvars, reqvars>>

\* ProducerOk with the empty-line test before is_running.load()
ProducerOk_EmptyFirst ==
    /\ ppc = "match"
    /\ readline = "Ok"
    /\ IF line = NoLine
       THEN NextRead
       ELSE IF is_running
            THEN /\ ppc' = "line_abort"
                 /\ loaded' = TRUE
                 /\ UNCHANGED <<readline, line>>
            ELSE /\ ppc' = "line_send"
                 /\ UNCHANGED <<readline, loaded, line>>
    /\ UNCHANGED <<env, shared, had_first_interrupt, already_read, sent, cvars, reqvars>>

\* main.rs 205-211: Ok(line): is_running.load(), then the empty-line test
ProducerOk ==
    /\ ppc = "match"
    /\ readline = "Ok"
    /\ IF is_running
       THEN /\ ppc' = "line_abort"
            /\ loaded' = TRUE
            /\ UNCHANGED <<readline, line>>
       ELSE IF line = NoLine
            THEN NextRead
            ELSE /\ ppc' = "line_send"
                 /\ UNCHANGED <<readline, loaded, line>>
    /\ UNCHANGED <<env, shared, had_first_interrupt, already_read, sent, cvars, reqvars>>

\* ProducerLineAbort with a continue after abort.store(true)
ProducerLineAbort_Continue ==
    /\ ppc = "line_abort"
    /\ abort' = TRUE
    /\ abortBy' = "Ok"
    /\ abortWhen' = (IF cpc = "sleep" THEN "sleep" ELSE "other")
    /\ NextRead
    /\ UNCHANGED <<env, is_running, queue, had_first_interrupt, already_read,
                   sent, cvars, reqvars>>

\* main.rs 207, 209-211: abort.store(true), then the empty-line test
ProducerLineAbort ==
    /\ ppc = "line_abort"
    /\ abort' = TRUE
    /\ abortBy' = "Ok"
    /\ abortWhen' = (IF cpc = "sleep" THEN "sleep" ELSE "other")
    /\ IF line = NoLine
       THEN NextRead
       ELSE /\ ppc' = "line_send"
            /\ UNCHANGED <<readline, loaded, line>>
    /\ UNCHANGED <<env, is_running, queue, had_first_interrupt, already_read,
                   sent, cvars, reqvars>>

\* ProducerLineSend over a single slot that the new line overwrites
ProducerLineSend_SingleSlot ==
    /\ ppc = "line_send"
    /\ IF ReceiverDropped
       THEN /\ ppc' = "panicked"
            /\ UNCHANGED <<queue, sent, had_first_interrupt, readline, loaded, line>>
       ELSE /\ queue' = <<Some(line)>>
            /\ sent' = Append(sent, Some(line))
            /\ had_first_interrupt' = FALSE
            /\ NextRead
    /\ UNCHANGED <<env, is_running, abort, abortBy, abortWhen, already_read, cvars, reqvars>>

\* main.rs 212-214: tx.send(Some(line)).unwrap(); had_first_interrupt.store(false)
ProducerLineSend ==
    /\ ppc = "line_send"
    /\ IF ReceiverDropped
       THEN /\ ppc' = "panicked"
            /\ UNCHANGED <<queue, sent, had_first_interrupt, readline, loaded, line>>
       ELSE /\ queue' = Append(queue, Some(line))
            /\ sent' = Append(sent, Some(line))
            /\ had_first_interrupt' = FALSE
            /\ NextRead
    /\ UNCHANGED <<env, is_running, abort, abortBy, abortWhen, already_read, cvars, reqvars>>

\* ProducerInterrupted without had_first_interrupt.store(true)
ProducerInterrupted_NoStore ==
    /\ ppc = "match"
    /\ readline = "Interrupted"
    /\ IF is_running
       THEN /\ ppc' = "int_abort"
            /\ loaded' = TRUE
            /\ UNCHANGED <<had_first_interrupt, readline, line>>
       ELSE IF double_ctrlc /\ ~had_first_interrupt
            THEN /\ UNCHANGED had_first_interrupt
                 /\ NextRead
            ELSE /\ ppc' = "int_exit"
                 /\ UNCHANGED <<had_first_interrupt, readline, loaded, line>>
    /\ UNCHANGED <<env, shared, already_read, sent, cvars, reqvars>>

\* main.rs 216-232: Err(Interrupted): is_running.load(), double Ctrl-C policy
ProducerInterrupted ==
    /\ ppc = "match"
    /\ readline = "Interrupted"
    /\ IF is_running
       THEN /\ ppc' = "int_abort"
            /\ loaded' = TRUE
            /\ UNCHANGED <<had_first_interrupt, readline, line>>
       ELSE IF double_ctrlc /\ ~had_first_interrupt
            THEN /\ had_first_interrupt' = TRUE
                 /\ NextRead
            ELSE /\ ppc' = "int_exit"
                 /\ UNCHANGED <<had_first_interrupt, readline, loaded, line>>
    /\ UNCHANGED <<env, shared, already_read, sent, cvars, reqvars>>

\* ProducerIntAbort that also counts the interrupt as a first interrupt
ProducerIntAbort_FirstInterrupt ==
    /\ ppc = "int_abort"
    /\ abort' = TRUE
    /\ abortBy' = "Interrupted"
    /\ abortWhen' = (IF cpc = "sleep" THEN "sleep" ELSE "other")
    /\ had_first_interrupt' = TRUE
    /\ NextRead
    /\ UNCHANGED <<env, is_running, queue, already_read, sent, cvars, reqvars>>

\* main.rs 218: abort.store(true); the match ends, the loop reads again
ProducerIntAbort ==
    /\ ppc = "int_abort"
    /\ abort' = TRUE
    /\ abortBy' = "Interrupted"
    /\ abortWhen' = (IF cpc = "sleep" THEN "sleep" ELSE "other")
    /\ NextRead
    /\ UNCHANGED <<env, is_running, queue, had_first_interrupt, already_read,
                   sent, cvars, reqvars>>

\* SendNone putting the sentinel in front of the lines that wait in the channel
SendNone_Front ==
    /\ IF ReceiverDropped
       THEN /\ ppc' = "panicked"
            /\ UNCHANGED <<queue, sent>>
       ELSE /\ queue' = <<None>> \o queue
            /\ sent' = Append(sent, None)
            /\ ppc' = "join"
    /\ UNCHANGED <<env, is_running, abort, abortBy, abortWhen, readline, loaded, line, had_first_interrupt,
                   already_read, cvars, reqvars>>

\* tx.send(None).unwrap(); break
SendNone ==
    /\ IF ReceiverDropped
       THEN /\ ppc' = "panicked"
            /\ UNCHANGED <<queue, sent>>
       ELSE /\ queue' = Append(queue, None)
            /\ sent' = Append(sent, None)
            /\ ppc' = "join"
    /\ UNCHANGED <<env, is_running, abort, abortBy, abortWhen, readline, loaded, line, had_first_interrupt,
                   already_read, cvars, reqvars>>

\* the exit branch leaving the loop without tx.send(None)
ProducerIntExit_NoSentinel ==
    /\ ppc = "int_exit"
    /\ ppc' = "join"
    /\ UNCHANGED <<env, shared, readline, loaded, line, had_first_interrupt, already_read,
                   sent, cvars, reqvars>>

\* main.rs 228-229: the exit branch of the Interrupted arm
ProducerIntExit ==
    /\ ppc = "int_exit"
    /\ SendNone

\* the Eof arm leaving the loop without tx.send(None)
ProducerEof_NoSentinel ==
    /\ ppc = "match"
    /\ readline = "Eof"
    /\ ppc' = "join"
    /\ UNCHANGED <<env, shared, readline, loaded, line, had_first_interrupt, already_read,
                   sent, cvars, reqvars>>

\* main.rs 233-236: Err(Eof)
ProducerEof ==
    /\ ppc = "match"
    /\ readline = "Eof"
    /\ SendNone

\* main.rs 237-241: Err(err): any other error of rl.readline
ProducerErr ==
    /\ ppc = "match"
    /\ readline = "Err"
    /\ SendNone

\* main.rs 245-257: handle.join().unwrap(), then main() returns
MainJoin ==
    /\ ppc = "join"
    /\ ReceiverDropped
    /\ ppc' = IF cpc = "panicked" THEN "panicked" ELSE "exited"
    /\ UNCHANGED <<env, shared, readline, loaded, line, had_first_interrupt, already_read,
                   sent, cvars, reqvars>>

\* ---------------------------------------------------------------- consumer
\* finish_prompt without is_running.store(false)
finish_prompt_NoStore == UNCHANGED is_running

\* prompt.rs 78-82: finish_prompt stores is_running = false (and prints the prompt)
finish_prompt == is_running' = FALSE

\* print_error without the call of finish_prompt
print_error_NoFinish == UNCHANGED is_running

\* prompt.rs 84-87: print_error logs the message and calls finish_prompt
print_error == finish_prompt

\* main.rs 151-168: request() returned Ok(false), or Err (print_error, retry = false):
\* count += 1, break, back to rx.recv()
\* request() returns: its locals go out of scope
ReturnFromRequest ==
    /\ had_first_success' = FALSE
    /\ print_buffer' = <<>>
    /\ events_left' = 0
    /\ chunks' = 0

EndLine(how) ==
    /\ count' = count + 1
    /\ attempts' = Append(attempts, how)
    /\ finished' = finished + 1
    /\ cpc' = "recv"
    /\ ReturnFromRequest
    /\ abortAtChunk' = "none"
    /\ UNCHANGED <<cur, started, sleeps, rendered>>

\* main.rs 151-164: request() returned Ok(true): count += 1, thread::sleep(500 ms)
RetryLine ==
    /\ count' = count + 1
    /\ attempts' = Append(attempts, "retry")
    /\ sleeps' = sleeps + 1
    /\ cpc' = "sleep"
    /\ ReturnFromRequest
    /\ UNCHANGED <<cur, started, finished, rendered, abortAtChunk>>

\* a panic unwinds the consumer thread: nothing is reset
Panic ==
    /\ cpc' = "panicked"
    /\ attempts' = Append(attempts, "panic")
    /\ UNCHANGED <<cur, count, started, finished, sleeps, reqvars>>

\* ConsumerRecv taking the newest item instead of the oldest
ConsumerRecv_Lifo ==
    /\ cpc = "recv"
    /\ queue # <<>>
    /\ queue' = SubSeq(queue, 1, Len(queue) - 1)
    /\ IF queue[Len(queue)].some
       THEN /\ cur' = queue[Len(queue)].line
            /\ count' = 1
            /\ cpc' = "call"
            /\ started' = Append(started, queue[Len(queue)].line)
            /\ sleeps' = 0
            /\ attempts' = <<>>
            /\ rendered' = <<>>
            /\ UNCHANGED <<abort, abortBy, abortWhen>>
       ELSE /\ abort' = TRUE
            /\ abortBy' = "consumer"
            /\ abortWhen' = "none"
            /\ cpc' = "done"
            /\ UNCHANGED <<cur, count, started, sleeps, attempts, rendered>>
    /\ UNCHANGED <<env, is_running, pvars, finished, had_first_success, print_buffer,
                   events_left, chunks, abortAtChunk>>

\* main.rs 138-142, 170-173: rx.recv() yields an item
ConsumerRecv ==
    /\ cpc = "recv"
    /\ queue # <<>>
    /\ queue' = Tail(queue)
    /\ IF Head(queue).some
       THEN /\ cur' = Head(queue).line
            /\ count' = 1
            /\ cpc' = "call"
            /\ started' = Append(started, Head(queue).line)
            /\ sleeps' = 0
            /\ attempts' = <<>>
            /\ rendered' = <<>>
            /\ UNCHANGED <<abort, abortBy, abortWhen>>
       ELSE /\ abort' = TRUE
            /\ abortBy' = "consumer"
            /\ abortWhen' = "none"
            /\ cpc' = "done"
            /\ UNCHANGED <<cur, count, started, sleeps, attempts, rendered>>
    /\ UNCHANGED <<env, is_running, pvars, finished, had_first_success, print_buffer,
                   events_left, chunks, abortAtChunk>>

\* main.rs 174-177: rx.recv() fails once the sender is dropped and the queue is empty
ConsumerRecvErr ==
    /\ cpc = "recv"
    /\ queue = <<>>
    /\ ppc = "exited"
    /\ abort' = TRUE
    /\ abortBy' = "consumer"
    /\ abortWhen' = "none"
    /\ cpc' = "done"
    /\ UNCHANGED <<env, is_running, queue, pvars, cur, count, started, finished,
                   sleeps, attempts, reqvars>>

\* main.rs 144-150, prompt.rs 151: request() is entered and stores is_running = true
RequestStart ==
    /\ cpc = "call"
    /\ is_running' = TRUE
    /\ cpc' = "connect"
    /\ UNCHANGED <<env, abort, abortBy, abortWhen, queue, pvars, cur, count, started, finished, sleeps,
                   attempts, reqvars>>

\* RequestConnect that asks for a retry of a failed connection while count < 3
RequestConnect_RetryRefused(outcome) ==
    /\ cpc = "connect"
    /\ CASE outcome = "response" ->
              /\ cpc' = "body"
              /\ had_first_success' = FALSE
              /\ print_buffer' = <<>>
              /\ events_left' = 0
              /\ chunks' = 0
              /\ abortAtChunk' = "none"
              /\ UNCHANGED <<is_running, cur, count, started, finished, sleeps,
                             attempts, rendered>>
         [] outcome = "refused" ->
              IF count < max_tries
              THEN /\ RetryLine
                   /\ UNCHANGED is_running
              ELSE /\ print_error
                   /\ EndLine("refused")
         [] outcome = "invalid" ->
              /\ print_error
              /\ EndLine("err")
    /\ UNCHANGED <<env, abort, abortBy, abortWhen, queue, pvars>>

\* prompt.rs 175-222: the request is built and sent
\*   "response": client.request succeeds, the loop variables are initialised
\*   "refused":  client.request fails: print_error, Ok(false)
\*   "invalid":  Request::builder()...body()? fails (api key not a header value): Err
RequestConnect(outcome) ==
    /\ cpc = "connect"
    /\ CASE outcome = "response" ->
              /\ cpc' = "body"
              /\ had_first_success' = FALSE
              /\ print_buffer' = <<>>
              /\ events_left' = 0
              /\ chunks' = 0
              /\ abortAtChunk' = "none"
              /\ UNCHANGED <<is_running, cur, count, started, finished, sleeps,
                             attempts, rendered>>
         [] outcome = "refused" ->
              /\ print_error
              /\ EndLine("refused")
         [] outcome = "invalid" ->
              /\ print_error
              /\ EndLine("err")
    /\ UNCHANGED <<env, abort, abortBy, abortWhen, queue, pvars>>

\* prompt.rs 223-227: the body yields a chunk that splits into n lines
RequestChunk(n) ==
    /\ cpc = "body"
    /\ chunks < MaxChunks
    /\ chunks' = chunks + 1
    /\ events_left' = n
    /\ abortAtChunk' = IF abort THEN abortBy ELSE "none"
    /\ cpc' = "event"
    /\ UNCHANGED <<env, shared, pvars, cur, count, started, finished, sleeps,
                   attempts, had_first_success, print_buffer, rendered>>

\* prompt.rs 224, 227: chunk? or from_utf8(..)? fails: request() returns Err
RequestChunkErr ==
    /\ cpc = "body"
    /\ print_error
    /\ EndLine("err")
    /\ UNCHANGED <<env, abort, abortBy, abortWhen, queue, pvars>>

\* prompt.rs 223, 283-284: the body has ended: finish_prompt, Ok(false)
RequestBodyEnd ==
    /\ cpc = "body"
    /\ finish_prompt
    /\ EndLine("eof")
    /\ UNCHANGED <<env, abort, abortBy, abortWhen, queue, pvars>>


\* prompt.rs 228-274: what one line of the chunk leads to
\*   "panic"        line[6..] out of range, or value2unquoted_text unwraps None
\*   "done"         data: [DONE]
\*   "err"          serde_json::from_str(data)? fails
\*   "continue"     no delta, or a delta without content: the loop continues
\*   "content"      a content delta is rendered
\*   "error"        an error payload: print_error(message)
\*   "unrecognized" neither choices nor error: print_error(data)
\*   "retry"        should_retry says so
\*   "raw_error"    a line without the data: prefix that is not retried
\*   "check"        an empty line: only the abort check
Outcome(ev, hfs, cnt) ==
    IF ev.prefix = "data"
    THEN IF ~ev.slice THEN "panic"
         ELSE IF ev.body = "[DONE]" THEN "done"
         ELSE IF ev.body # "json" THEN "err"
         ELSE IF ev.top = "choices"
              THEN IF ev.delta = "absent" THEN "continue"
                   ELSE IF ev.delta = "nocontent" THEN "continue"
                   ELSE IF value2unquoted_text(ev.content).panic THEN "panic"
                   ELSE "content"
         ELSE IF ev.top = "error"
              THEN IF value2unquoted_text(ev.emsg).panic THEN "panic" ELSE "error"
         ELSE "unrecognized"
    ELSE IF ev.prefix = "raw"
    THEN IF ~hfs
         THEN CASE should_retry(ev, cnt) = "true" -> "retry"
                [] should_retry(ev, cnt) = "false" -> "raw_error"
                [] OTHER -> "panic"
         ELSE "raw_error"
    ELSE "check"

\* the for loop moves on to the next line; after the last one data_buffer.clear()
NextEvent ==
    /\ events_left' = events_left - 1
    /\ cpc' = IF events_left = 1 THEN "body" ELSE "event"

\* prompt.rs 275: abort.load(): an observed abort leaves the loop
AbortCheck ==
    IF abort
    THEN /\ cpc' = "abort_reset"
         /\ UNCHANGED events_left
    ELSE NextEvent

\* prompt.rs 228-275: one line of the chunk is handled
RequestEvent(ev) ==
    /\ cpc = "event"
    /\ events_left >= 1
    /\ LET o == Outcome(ev, had_first_success, count) IN
       CASE o = "panic" ->
              /\ Panic
              /\ UNCHANGED is_running
         [] o = "done" ->
              /\ finish_prompt
              /\ EndLine(o)
         [] o \in {"error", "unrecognized", "raw_error", "err"} ->
              /\ print_error
              /\ EndLine(o)
         [] o = "retry" ->
              /\ RetryLine
              /\ UNCHANGED is_running
         [] o = "continue" ->
              /\ NextEvent
              /\ UNCHANGED <<is_running, cur, count, started, finished, sleeps, attempts,
                             had_first_success, print_buffer, chunks, rendered,
                             abortAtChunk>>
         [] o = "content" ->
              /\ LET r == post_process(print_buffer, value2unquoted_text(ev.content).s) IN
                   /\ print_buffer' = r.buf
                   /\ rendered' = rendered \o r.out
              /\ had_first_success' = TRUE
              /\ AbortCheck
              /\ UNCHANGED <<is_running, cur, count, started, finished, sleeps, attempts,
                             chunks, abortAtChunk>>
         [] o = "check" ->
              /\ AbortCheck
              /\ UNCHANGED <<is_running, cur, count, started, finished, sleeps, attempts,
                             had_first_success, print_buffer, chunks, rendered,
                             abortAtChunk>>
    /\ UNCHANGED <<env, abort, abortBy, abortWhen, queue, pvars>>

\* prompt.rs 276: abort.store(false)
RequestAbortReset ==
    /\ cpc = "abort_reset"
    /\ abort' = FALSE
    /\ abortBy' = "none"
    /\ abortWhen' = "none"
    /\ cpc' = "abort_finish"
    /\ UNCHANGED <<env, is_running, queue, pvars, cur, count, started, finished,
                   sleeps, attempts, reqvars>>

\* prompt.rs 277-278: finish_prompt, Ok(false)
RequestAbortFinish ==
    /\ cpc = "abort_finish"
    /\ finish_prompt
    /\ EndLine("aborted")
    /\ UNCHANGED <<env, abort, abortBy, abortWhen, queue, pvars>>

\* main.rs 143-144, 163-164: the backoff sleep is over, the while loop calls request()
ConsumerWake ==
    /\ cpc = "sleep"
    /\ cpc' = "call"
    /\ UNCHANGED <<env, shared, pvars, cur, count, started, finished, sleeps,
                   attempts, reqvars>>

\* ----------------------------------------------------------- specification
Producer ==
    \/ \E r \in {"Ok", "Interrupted", "Eof", "Err"}, l \in Lines \cup {NoLine} :
          ProducerRead(r, l)
    \/ ProducerStdinErr
    \/ ProducerOk
    \/ ProducerLineAbort
    \/ ProducerLineSend
    \/ ProducerInterrupted
    \/ ProducerIntAbort
    \/ ProducerIntExit
    \/ ProducerEof
    \/ ProducerErr
    \/ MainJoin

Consumer ==
    \/ ConsumerRecv
    \/ ConsumerRecvErr
    \/ RequestStart
    \/ \E o \in {"response", "refused", "invalid"} : RequestConnect(o)
    \/ \E n \in 1..MaxEvents : RequestChunk(n)
    \/ RequestChunkErr
    \/ RequestBodyEnd
    \/ \E ev \in Events : RequestEvent(ev)
    \/ RequestAbortReset
    \/ RequestAbortFinish
    \/ ConsumerWake

Next ==
    \/ Producer
    \/ Consumer

Spec == Init /\ [][Next]_vars

TypeOK ==
    /\ is_running \in BOOLEAN
    /\ abort \in BOOLEAN
    /\ count \in 1..(max_tries + 1)


\* ------------------------------------------ should_retry called on its own
InitRetry ==
    /\ tty = TRUE
    /\ double_ctrlc = TRUE
    /\ Start
    /\ arg_line \in Events
    /\ arg_count \in 1..MaxCount
    /\ result = "none"
    /\ fragments = <<>>
    /\ returned = <<>>

CallShouldRetry ==
    /\ result = "none"
    /\ result' = should_retry(arg_line, arg_count)
    /\ UNCHANGED <<conf, arg_line, arg_count, fragments, returned, shared, pvars,
                   cvars, reqvars>>

SpecRetry == InitRetry /\ [][CallShouldRetry]_vars

\* ------------------------------------------ post_process called on its own
\* request() starts with an empty print_buffer (prompt.rs 221) and passes the
\* content of one delta after the other (prompt.rs 247-249)
InitFix ==
    /\ tty = TRUE
    /\ double_ctrlc = TRUE
    /\ Start
    /\ arg_line = EvEmpty
    /\ arg_count = 1
    /\ result = "none"
    /\ fragments \in UNION {[1..n -> FragTexts] : n \in 1..MaxFrags}
    /\ returned = <<>>

CallPostProcess ==
    /\ Len(returned) < Len(fragments)
    /\ LET r == post_process(print_buffer, fragments[Len(returned) + 1]) IN
         /\ print_buffer' = r.buf
         /\ returned' = Append(returned, r.out)
    /\ UNCHANGED <<conf, arg_line, arg_count, result, fragments, shared, pvars, cvars,
                   had_first_success, events_left, chunks, rendered, abortAtChunk>>

SpecFix == InitFix /\ [][CallPostProcess]_vars

\* ------------------------------ the requests of one line, with interrupts
\* content texts the server streams when one line is looked at on its own:
\* a lone backslash, and the plain text "n", which completes an escape
Fragments == {<<BS>>, <<"n">>}

StreamEvents ==
    (Events \ {EvContent(t) : t \in Texts}) \cup {EvContent(t) : t \in Fragments}

\* main.rs 142-146: the consumer has received the first line typed and is about
\* to call request(); the producer is back at readline
InitRequest ==
    /\ tty = TRUE
    /\ double_ctrlc \in BOOLEAN
    /\ NoCall
    /\ is_running = FALSE
    /\ abort = FALSE
    /\ abortBy = "none"
    /\ abortWhen = "none"
    /\ queue = <<>>
    /\ ppc = "read"
    /\ readline = "none"
    /\ loaded = FALSE
    /\ line = NoLine
    /\ had_first_interrupt = FALSE
    /\ already_read = FALSE
    /\ cpc = "call"
    /\ cur = <<1>>
    /\ count = 1
    /\ had_first_success = FALSE
    /\ print_buffer = <<>>
    /\ events_left = 0
    /\ chunks = 0
    /\ rendered = <<>>
    /\ sent = <<Some(<<1>>)>>
    /\ started = <<(<<1>>)>>
    /\ finished = 0
    /\ sleeps = 0
    /\ attempts = <<>>
    /\ abortAtChunk = "none"

\* the user only presses Ctrl-C; the consumer runs the retry loop of the line
NextRequest ==
    \/ ProducerRead("Interrupted", NoLine)
    \/ ProducerInterrupted
    \/ ProducerIntAbort
    \/ ProducerIntExit
    \/ RequestStart
    \/ \E o \in {"response", "refused", "invalid"} : RequestConnect(o)
    \/ \E n \in 1..MaxEvents : RequestChunk(n)
    \/ RequestChunkErr
    \/ RequestBodyEnd
    \/ \E ev \in StreamEvents : RequestEvent(ev)
    \/ RequestAbortReset
    \/ RequestAbortFinish
    \/ ConsumerWake

SpecRequest == InitRequest /\ [][NextRequest]_vars

\* ------------------------------------- Readline::handle as the producer
\* readline.rs 55-124: the producer task of Readline::handle, which works on the
\* globals ABORT, IS_RUNNING and HAD_FIRST_INTERRUPT of state.rs (here abort,
\* is_running, had_first_interrupt) and sends over a bounded tokio channel.  It
\* is run against the consumer loop of main.rs with request() of prompt.rs.
\* ppc = "loop" is the test of the while loop, "exited" the returned task.

\* the end of an iteration: back to the test of the while loop
NextLoop ==
    /\ ppc' = "loop"
    /\ readline' = "none"
    /\ loaded' = FALSE
    /\ line' = NoLine

\* readline.rs 62: while !ABORT.load(); after the loop the task returns Ok(())
HandleLoop ==
    /\ ppc = "loop"
    /\ ppc' = IF abort THEN "exited" ELSE "read"
    /\ UNCHANGED <<env, shared, readline, loaded, line, had_first_interrupt, already_read,
                   sent, cvars, reqvars>>

\* readline.rs 69-75: rl.readline(""), or the first read of piped standard input
HandleRead(r, l) ==
    /\ ppc = "read"
    /\ tty \/ ~already_read
    /\ IF tty THEN r \in {"Ok", "Interrupted", "Eof", "Err"} ELSE r = "Ok"
    /\ IF r = "Ok" THEN l # NoLine => l = <<LinesSent + 1>>
                   ELSE l = NoLine
    /\ readline' = r
    /\ line' = l
    /\ already_read' = (already_read \/ ~tty)
    /\ ppc' = "match"
    /\ UNCHANGED <<env, shared, loaded, had_first_interrupt, sent, cvars, reqvars>>

\* readline.rs 73: stdin.read_to_string(&mut buf)? returns the error from the task
HandleStdinErr ==
    /\ ppc = "read"
    /\ ~tty /\ ~already_read
    /\ ppc' = "exited"
    /\ UNCHANGED <<env, shared, readline, loaded, line, had_first_interrupt, already_read,
                   sent, cvars, reqvars>>

\* readline.rs 76-77: piped input, second pass: Err(ReadlineError::Eof)? returns
\* the error from the task; the match below is not reached
HandleEofReturn ==
    /\ ppc = "read"
    /\ ~tty /\ already_read
    /\ ppc' = "exited"
    /\ UNCHANGED <<env, shared, readline, loaded, line, had_first_interrupt, already_read,
                   sent, cvars, reqvars>>

\* readline.rs 80-86: Ok(line): IS_RUNNING.load(), then the empty-line test
HandleOk ==
    /\ ppc = "match"
    /\ readline = "Ok"
    /\ IF is_running
       THEN /\ ppc' = "line_abort"
            /\ loaded' = TRUE
            /\ UNCHANGED <<readline, line>>
       ELSE IF line = NoLine
            THEN NextLoop
            ELSE /\ ppc' = "line_send"
                 /\ UNCHANGED <<readline, loaded, line>>
    /\ UNCHANGED <<env, shared, had_first_interrupt, already_read, sent, cvars, reqvars>>

\* readline.rs 82, 84-86: ABORT.store(true), then the empty-line test
HandleLineAbort ==
    /\ ppc = "line_abort"
    /\ abort' = TRUE
    /\ abortBy' = "Ok"
    /\ abortWhen' = (IF cpc = "sleep" THEN "sleep" ELSE "other")
    /\ IF line = NoLine
       THEN NextLoop
       ELSE /\ ppc' = "line_send"
            /\ UNCHANGED <<readline, loaded, line>>
    /\ UNCHANGED <<env, is_running, queue, had_first_interrupt, already_read,
                   sent, cvars, reqvars>>

\* readline.rs 88-89: tx.send(Some(line)).await?: waits while the channel is full,
\* returns the error from the task when the receiver is gone
HandleLineSend ==
    /\ ppc = "line_send"
    /\ IF ReceiverDropped
       THEN /\ ppc' = "exited"
            /\ UNCHANGED <<queue, sent, had_first_interrupt, readline, loaded, line>>
       ELSE /\ Len(queue) < ChanCap
            /\ queue' = Append(queue, Some(line))
            /\ sent' = Append(sent, Some(line))
            /\ had_first_interrupt' = FALSE
            /\ NextLoop
    /\ UNCHANGED <<env, is_running, abort, abortBy, abortWhen, already_read, cvars, reqvars>>

\* readline.rs 91-108: Err(Interrupted): IS_RUNNING.load(), double Ctrl-C policy
HandleInterrupted ==
    /\ ppc = "match"
    /\ readline = "Interrupted"
    /\ IF is_running
       THEN /\ ppc' = "int_abort"
            /\ loaded' = TRUE
            /\ UNCHANGED <<had_first_interrupt, readline, line>>
       ELSE IF double_ctrlc /\ ~had_first_interrupt
            THEN /\ had_first_interrupt' = TRUE
                 /\ NextLoop
            ELSE /\ ppc' = "int_exit"
                 /\ UNCHANGED <<had_first_interrupt, readline, loaded, line>>
    /\ UNCHANGED <<env, shared, already_read, sent, cvars, reqvars>>

\* readline.rs 93: ABORT.store(true); the match ends, the while test comes next
HandleIntAbort ==
    /\ ppc = "int_abort"
    /\ abort' = TRUE
    /\ abortBy' = "Interrupted"
    /\ abortWhen' = (IF cpc = "sleep" THEN "sleep" ELSE "other")
    /\ NextLoop
    /\ UNCHANGED <<env, is_running, queue, had_first_interrupt, already_read,
                   sent, cvars, reqvars>>

\* tx.send(None).await?; break; return Ok(())
HandleSendNone ==
    /\ IF ReceiverDropped
       THEN UNCHANGED <<queue, sent>>
       ELSE /\ Len(queue) < ChanCap
            /\ queue' = Append(queue, None)
            /\ sent' = Append(sent, None)
    /\ ppc' = "exited"
    /\ UNCHANGED <<env, is_running, abort, abortBy, abortWhen, readline, loaded, line, had_first_interrupt,
                   already_read, cvars, reqvars>>

\* readline.rs 105-106: the exit branch of the Interrupted arm
HandleIntExit ==
    /\ ppc = "int_exit"
    /\ HandleSendNone

\* readline.rs 110-113: Err(Eof)
HandleEof ==
    /\ ppc = "match"
    /\ readline = "Eof"
    /\ HandleSendNone

\* readline.rs 114-118: Err(err)
HandleErr ==
    /\ ppc = "match"
    /\ readline = "Err"
    /\ HandleSendNone

\* readline.rs 59-62, state.rs 73-75: the task starts at the test of the loop
InitHandle ==
    /\ tty \in BOOLEAN
    /\ double_ctrlc \in BOOLEAN
    /\ NoCall
    /\ is_running = FALSE
    /\ abort = FALSE
    /\ abortBy = "none"
    /\ abortWhen = "none"
    /\ queue = <<>>
    /\ ppc = "loop"
    /\ readline = "none"
    /\ loaded = FALSE
    /\ line = NoLine
    /\ had_first_interrupt = FALSE
    /\ already_read = FALSE
    /\ cpc = "recv"
    /\ cur = NoLine
    /\ count = 1
    /\ had_first_success = FALSE
    /\ print_buffer = <<>>
    /\ events_left = 0
    /\ chunks = 0
    /\ rendered = <<>>
    /\ sent = <<>>
    /\ started = <<>>
    /\ finished = 0
    /\ sleeps = 0
    /\ attempts = <<>>
    /\ abortAtChunk = "none"

Handle ==
    \/ HandleLoop
    \/ \E r \in {"Ok", "Interrupted", "Eof", "Err"}, l \in Lines \cup {NoLine} :
          HandleRead(r, l)
    \/ HandleStdinErr
    \/ HandleEofReturn
    \/ HandleOk
    \/ HandleLineAbort
    \/ HandleLineSend
    \/ HandleInterrupted
    \/ HandleIntAbort
    \/ HandleIntExit
    \/ HandleEof
    \/ HandleErr

NextHandle ==
    \/ Handle
    \/ Consumer

SpecHandle == InitHandle /\ [][NextHandle]_vars

\* ------------------------------------------------------------------ claims
InRequest == cpc \in {"call", "connect", "body", "event", "abort_reset", "abort_finish", "sleep"}

ProducerStep == ppc' # ppc

\* C1: an interrupt handled while is_running is false and had_first_interrupt is
\* false, with double_ctrlc configured, keeps the producer in its loop, sends
\* nothing and sets had_first_interrupt; an interrupt handled while is_running is
\* false and had_first_interrupt is true takes the exit branch, which sends the
\* sentinel and ends the producer loop.
C1_DoubleInterrupt ==
    [][(ProducerStep /\ ~is_running /\ double_ctrlc) =>
         /\ (ppc = "match" /\ readline = "Interrupted" /\ ~had_first_interrupt) =>
               (ppc' = "read" /\ had_first_interrupt' /\ queue' = queue)
         /\ (ppc = "match" /\ readline = "Interrupted" /\ had_first_interrupt) =>
               (ppc' = "int_exit" /\ had_first_interrupt')
         /\ (ppc = "int_exit") =>
               (queue' = Append(queue, None) /\ ppc' = "join")]_vars

C1_Witness ==
    /\ double_ctrlc
    /\ had_first_interrupt
    /\ readline = "Interrupted"
    /\ ppc = "join"
    /\ sent # <<>> /\ sent[Len(sent)] = None

\* C2: when a chunk arrives while abort is set by an interrupt, handling that
\* chunk ends the request: the consumer neither waits for a further chunk nor
\* retries the line (which would store is_running = true again).
C2_AbortEndsRequestAtNextChunk ==
    abortAtChunk = "Interrupted" => cpc \notin {"body", "sleep", "call", "connect"}

\* C3: whenever the consumer is back at rx.recv() after a request, abort is false.
C3_AbortClearedWhenIdle ==
    cpc = "recv" => ~abort

\* C4 (as stated): a non-empty line read while is_running is true is not sent.
C4_NoSendWhileRunning ==
    [][(ppc = "line_send" /\ loaded) => (queue' = queue /\ sent' = sent)]_vars

\* C4 (amended): a non-empty line read while is_running is true sets abort and is
\* then passed to tx.send like any other line: it is appended to the queue, or,
\* when the consumer thread is gone, the send fails and main() panics.
C4_AbortAndSend ==
    [][(ProducerStep /\ loaded /\ readline = "Ok" /\ line # NoLine) =>
         /\ ppc = "line_abort" => (abort' /\ ppc' = "line_send")
         /\ ppc = "line_send" =>
               IF ReceiverDropped
               THEN ppc' = "panicked" /\ queue' = queue
               ELSE queue' = Append(queue, Some(line)) /\ ppc' = "read"]_vars

C4_Witness ==
    /\ ppc = "line_send"
    /\ loaded
    /\ line \in Lines
    /\ abort
    /\ is_running
    /\ cpc = "event"

C6_IdleNotRunning ==
    cpc = "recv" => ~is_running

C6_Witness ==
    /\ cpc = "recv"
    /\ attempts = <<"retry", "retry", "raw_error">>
    /\ ~is_running

\* C7: the lines the consumer has begun to process are, in order, the first lines
\* the producer sent; all but possibly the last have ended, and a line is in
\* process exactly when the consumer is inside its retry loop.
C7_OneAtATimeInOrder ==
    /\ Len(started) <= Len(SentLines)
    /\ started = [i \in 1..Len(started) |-> SentLines[i].line]
    /\ Len(started) - finished \in {0, 1}
    /\ (Len(started) - finished = 1) <=> (InRequest \/ cpc = "panicked")

C7_Witness ==
    /\ Len(started) = 2
    /\ started = <<(<<1>>), (<<2>>)>>
    /\ finished = 1
    /\ cpc = "event"

\* C8: the consumer thread never panics.
C8_ConsumerNeverPanics ==
    cpc # "panicked"

\* C9: should_retry returns true exactly for JSON whose error type is the string
\* "server_error" with count < 3, and returns false for everything else.
C9_ShouldRetryIff ==
    result # "none" =>
        result = IF /\ arg_line.body = "json"
                    /\ arg_line.top = "error"
                    /\ arg_line.etype = JStr(ServerError)
                    /\ arg_count < 3
                 THEN "true" ELSE "false"

\* C10: inside the retry loop the attempt counter is 1 plus the number of retries
\* made for the line, at most 3, and one backoff sleep was taken per retry; when
\* attempts 1 and 2 were answered by a server_error and attempt 3 streams content,
\* two sleeps were taken and the content is rendered.
C10_AttemptCounter ==
    /\ InRequest =>
          /\ count = Len(attempts) + 1
          /\ count <= max_tries
          /\ \A i \in 1..Len(attempts) : attempts[i] = "retry"
          /\ sleeps = count - 1
    /\ sleeps <= 2
    /\ (cpc = "recv" /\ attempts # <<>>) => sleeps = Len(attempts) - 1
    /\ (Len(attempts) >= 2 /\ attempts[1] = "retry" /\ attempts[2] = "retry"
          /\ had_first_success) =>
             (count = 3 /\ sleeps = 2 /\ rendered # <<>>)

C10_Witness ==
    /\ attempts = <<"retry", "retry", "done">>
    /\ sleeps = 2
    /\ rendered # <<>>
    /\ cpc = "recv"

\* the provider error payload {"error": {"type": "server_error", "message": "m"}},
\* as a line of its own and as a data: frame
ServerErrorPayloads == {EvRawError(JStr(ServerError)), EvDataError(JStr(ServerError))}

\* C11: a server_error payload handled before any content delta of the attempt,
\* with count < 3, makes request() return "retry": the consumer sleeps and calls
\* request() again for the same line, whether the payload came as a line of its
\* own or as a data: frame.
C11_ServerErrorRetried ==
    [][\A ev \in ServerErrorPayloads :
          (RequestEvent(ev) /\ ~had_first_success /\ count < max_tries) =>
             (cpc' = "sleep" /\ cur' = cur /\ finished' = finished)]_vars

\* every payload or line that request() treats as an error of the provider
ErrorEvents ==
    RawEvents \cup {EvDataNonJson, EvUnrecognized, EvDataErrorNoMsg}
    \cup {EvDataError(t) : t \in {JStr(ServerError), JStr(OtherError)}}

\* C12: once a content delta of the attempt was rendered, every error handled in
\* that attempt ends the line: request() returns without asking for a retry and
\* the consumer is back at rx.recv().
C12_NoRetryAfterContent ==
    [][\A ev \in ErrorEvents :
          (RequestEvent(ev) /\ had_first_success) =>
             (cpc' = "recv" /\ finished' = finished + 1 /\ ~is_running')]_vars

\* the stream of the request ends: [DONE], end of body, or an observed abort
StreamEnds ==
    /\ cpc \in {"event", "body", "abort_finish"}
    /\ cpc' = "recv"
    /\ attempts' # <<>>
    /\ attempts'[Len(attempts')] \in {"done", "eof", "aborted"}

\* C13: when the stream of a request ends while print_buffer holds fragments,
\* their text, joined as it is, is rendered before request() returns.
C13_FlushAtStreamEnd ==
    [][(StreamEnds /\ print_buffer # <<>>) =>
          rendered' = rendered \o Concat(print_buffer)]_vars

\* C14 (as stated): for fragments a, b passed one after the other to an empty
\* buffer, a ending with a backslash and b any fragment, the first call returns
\* the empty text and the second returns a + b with every backslash-n replaced
\* by a newline.
C14_PairNormalized ==
    (Len(returned) >= 2 /\ EndsWithBS(fragments[1])) =>
        /\ returned[1] = <<>>
        /\ returned[2] = ReplaceNewlines(fragments[1] \o fragments[2])

\* C14 (amended): the first call returns the empty text; when b does not end with
\* a backslash the second call returns a + b with every backslash-n replaced by a
\* newline and leaves the buffer empty; when b ends with a backslash the second
\* call returns the empty text too and the buffer holds a and b.
C14_PairNormalizedUnlessHeld ==
    (Len(returned) = 2 /\ EndsWithBS(fragments[1])) =>
        /\ returned[1] = <<>>
        /\ IF EndsWithBS(fragments[2])
           THEN /\ returned[2] = <<>>
                /\ print_buffer = <<fragments[1], fragments[2]>>
           ELSE /\ returned[2] = ReplaceNewlines(fragments[1] \o fragments[2])
                /\ print_buffer = <<>>

C14_Witness ==
    /\ Len(returned) = 2
    /\ fragments[1] = <<"a", BS>>
    /\ fragments[2] = <<"n">>
    /\ returned = << <<>>, <<"a", NL>> >>

\* C15: a fragment that does not end with a backslash, passed while the buffer
\* is empty, is returned unchanged and the buffer stays empty.
C15_PlainFragmentUnchanged ==
    [][(returned' # returned /\ print_buffer = <<>>
          /\ ~EndsWithBS(fragments[Len(returned) + 1])) =>
             /\ returned'[Len(returned')] = fragments[Len(returned) + 1]
             /\ print_buffer' = <<>>]_vars

C15_Witness ==
    /\ fragments[1] = <<BS, "n">>
    /\ returned = << <<BS, "n">> >>
    /\ print_buffer = <<>>

\* the data: frames that parse as a completion payload
ParsedFrames == {EvNoDelta, EvRole} \cup {EvContent(t) : t \in Texts}

\* C16: after each parsed frame, whether it carries content, a role marker or no
\* delta, abort is loaded; when it is set request() leaves the read loop to end
\* the request, and what was rendered stays rendered.
C16_AbortCheckedAfterEachFrame ==
    [][\A ev \in ParsedFrames :
          (RequestEvent(ev) /\ abort) =>
             /\ cpc' = "abort_reset"
             /\ \E tail \in {<<>>} \cup Texts : rendered' = rendered \o tail]_vars

\* the sentinels sent so far
Sentinels == SelectSeq(sent, LAMBDA m : ~m.some)

\* C17: every request having ended (the consumer thread did not unwind inside
\* request()), the Eof arm appends the sentinel and leaves the producer loop for
\* the join; the sentinel is sent at most once and nothing is read afterwards;
\* the consumer that receives the sentinel ends its loop, and by then every line
\* sent has been started and finished; main() returns after Eof only when the
\* consumer thread has ended.
C17_EofShutdown ==
    [][/\ (ppc = "match" /\ readline = "Eof" /\ ProducerStep /\ cpc # "panicked") =>
             /\ queue' = Append(queue, None)
             /\ sent' = Append(sent, None)
             /\ ppc' = "join"
       /\ Len(Sentinels') <= 1
       /\ ppc = "join" => (ppc' \in {"join", "exited", "panicked"} /\ sent' = sent)
       /\ (cpc = "recv" /\ cpc' # cpc /\ queue # <<>> /\ ~Head(queue).some) =>
             /\ cpc' = "done"
             /\ queue' = <<>>
             /\ Len(started') = Len(SentLines)
             /\ finished' = Len(SentLines)
       /\ cpc = "done" => cpc' = "done"
       /\ (ppc' = "exited" /\ readline' = "Eof") => cpc' = "done"]_vars

C17_Witness ==
    /\ ppc = "exited"
    /\ readline = "Eof"
    /\ cpc = "done"
    /\ Len(SentLines) = 2
    /\ finished = 2
    /\ sent[Len(sent)] = None

\* C18: main() leaves the producer loop only after it has sent the sentinel,
\* also when reading the standard input has failed.
C18_IoFailureSendsSentinel ==
    ppc = "exited" => (sent # <<>> /\ sent[Len(sent)] = None)

\* C19: when had_first_interrupt is true and the producer has read an Ok input,
\* empty or not, had_first_interrupt is false by the time the producer is back
\* at readline.
C19_AnyInputClearsFirstInterrupt ==
    [][(had_first_interrupt /\ readline = "Ok" /\ ppc # "read" /\ ppc' = "read") =>
          ~had_first_interrupt']_vars

\* C20: with double_ctrlc off, had_first_interrupt is never set; an interrupt
\* handled while is_running is false takes the exit branch, which sends the
\* sentinel and leaves the producer loop for the join.
C20_SingleInterruptExits ==
    [][~double_ctrlc =>
         /\ ~had_first_interrupt'
         /\ (ProducerStep /\ ~is_running) =>
               /\ (ppc = "match" /\ readline = "Interrupted") => ppc' = "int_exit"
               /\ ppc = "int_exit" =>
                     /\ queue' = Append(queue, None)
                     /\ sent' = Append(sent, None)
                     /\ ppc' = "join"]_vars

C20_Witness ==
    /\ ~double_ctrlc
    /\ readline = "Interrupted"
    /\ ppc = "join"
    /\ ~is_running
    /\ sent = <<None>>
    /\ queue = <<None>>

\* C21: with piped input the producer never stores abort; it sends at most one
\* line and the sentinel after it; once standard input was read and the producer
\* loop has ended, what was sent is the sentinel alone (empty input) or the line
\* followed by the sentinel; no attempt of the piped line ends by an observed
\* abort, and when the consumer has handled the sentinel the line sent has been
\* started and finished.
C21_PipedInput ==
    ~tty =>
        /\ abortBy \notin {"Ok", "Interrupted"}
        /\ abortAtChunk = "none"
        /\ abort => cpc = "done"
        /\ \A i \in 1..Len(attempts) : attempts[i] # "aborted"
        /\ Len(SentLines) <= 1
        /\ \A i \in 1..Len(sent) : ~sent[i].some => i = Len(sent)
        /\ (already_read /\ ppc \in {"join", "exited"}) =>
              \/ sent = <<None>>
              \/ \E l \in Lines : sent = <<Some(l), None>>
        /\ cpc = "done" =>
              /\ Len(started) = Len(SentLines)
              /\ finished = Len(SentLines)

C21_Witness ==
    /\ ~tty
    /\ ppc = "exited"
    /\ cpc = "done"
    /\ sent = <<Some(<<1>>), None>>
    /\ finished = 1
    /\ attempts = <<"done">>
    /\ rendered # <<>>

\* prompt.rs 161-173: the "messages" of the request body built for a prompt; a
\* typed line n stands for a text without quotes and trailing newlines, which
\* sanitize_input leaves as it is
User(l) == [role |-> "user", content |-> l]

messages(prompt) == <<User(prompt)>>

\* C22: the request for a line carries the user turns of all lines submitted
\* before it, and the line itself as the last turn.
C22_SnapshotCarriesEarlierTurns ==
    cpc = "connect" =>
        LET m == messages(cur) IN
          /\ m[Len(m)] = User(cur)
          /\ \A i \in 1..(Len(started) - 1) :
                \E j \in 1..Len(m) : m[j] = User(started[i])

\* prompt.rs 229-235: what request() makes of a frame "data:" + payload, with or
\* without a space after the colon.  line[6..] drops six bytes: with the space it
\* is the payload; without it the payload has lost its first byte, so that
\* `{"choices":...}` becomes `"choices":...}` (serde_json: trailing characters)
\* and `[DONE]` becomes `DONE]` (not "[DONE]", and not JSON)
FrameEvent(space, payload) ==
    IF ~space THEN EvDataNonJson
    ELSE CASE payload = "content" -> EvContent(<<"h", "i">>)
           [] payload = "finish" -> EvRole
           [] payload = "done" -> EvDone

\* C23: of the frames data:{"choices":[{"delta":{"content":"hi"}}]},
\* data:{"choices":[{"delta":{},"finish_reason":"stop"}]} and data:[DONE]
\* (no space after the colon), the first renders "hi" and the request goes on,
\* the second lets the request go on, and the third ends the request without
\* error or retry, with is_running false.
C23_HelloHi ==
    [][/\ (~had_first_success /\ RequestEvent(FrameEvent(FALSE, "content"))) =>
             /\ rendered' = rendered \o <<"h", "i">>
             /\ cpc' \in {"event", "body", "abort_reset"}
       /\ (had_first_success /\ RequestEvent(FrameEvent(FALSE, "finish"))) =>
             /\ rendered' = rendered
             /\ cpc' \in {"event", "body", "abort_reset"}
       /\ (had_first_success /\ RequestEvent(FrameEvent(FALSE, "done"))) =>
             /\ cpc' = "recv"
             /\ ~is_running'
             /\ attempts' = Append(attempts, "done")]_vars

\* C24: Readline::handle never leaves its loop because of an abort that it
\* stored itself for an interrupt or a line read while is_running was true.
C24_HandleSurvivesAbort ==
    [][(ppc = "loop" /\ ppc' = "exited") => abortBy \notin {"Ok", "Interrupted"}]_vars

\* C25: when Readline::handle has returned because input has ended (Eof of the
\* line editor, or piped input on the second pass), the consumer thread being
\* alive, the sentinel is the last item sent.
C25_HandleEofSendsSentinel ==
    (/\ ppc = "exited"
     /\ cpc # "panicked"
     /\ (tty /\ readline = "Eof") \/ (~tty /\ already_read)) =>
        (sent # <<>> /\ sent[Len(sent)] = None)

\* C26: print_buffer is non-empty only right after a fragment that ends with a
\* backslash, and holds only such fragments; after a fragment that does not end
\* with a backslash it is empty; and the texts returned so far followed by the
\* fragments held equal the fragments passed so far, once backslash-n is
\* replaced by a newline on both sides.
C26_BufferInvariant ==
    LET k == Len(returned) IN
      /\ (k >= 1 /\ ~EndsWithBS(fragments[k])) => print_buffer = <<>>
      /\ print_buffer # <<>> => (k >= 1 /\ EndsWithBS(fragments[k]))
      /\ \A i \in 1..Len(print_buffer) : EndsWithBS(print_buffer[i])
      /\ ReplaceNewlines(Concat(returned) \o Concat(print_buffer))
           = ReplaceNewlines(Concat(SubSeq(fragments, 1, k)))

C26_Witness ==
    /\ fragments = << <<BS>>, <<"n", BS>> >>
    /\ returned = << <<>>, <<>> >>
    /\ print_buffer = << <<BS>>, <<"n", BS>> >>

\* C27: the frame data: [DONE] ends the request at once: the lines left in the
\* chunk are not looked at, no further chunk is awaited, nothing is rendered,
\* is_running is false and the consumer is back at rx.recv() without a sleep;
\* what was rendered for the line stays as it is until the next line is received.
C27_DoneEndsRequest ==
    [][/\ RequestEvent(EvDone) =>
             /\ cpc' = "recv"
             /\ ~is_running'
             /\ attempts' = Append(attempts, "done")
             /\ finished' = finished + 1
             /\ sleeps' = sleeps
             /\ rendered' = rendered
             /\ events_left' = 0
       /\ (cpc = "recv" /\ attempts # <<>> /\ attempts[Len(attempts)] = "done") =>
             \/ rendered' = rendered /\ cpc' \in {"recv", "done"}
             \/ cpc' = "call" /\ Len(started') = Len(started) + 1]_vars

C27_Witness ==
    /\ cpc = "recv"
    /\ attempts = <<"retry", "done">>
    /\ rendered = <<"h", "i">>
    /\ ~is_running
    /\ events_left = 0

\* C28: an interrupt handled while is_running is true stores abort and nothing
\* else: the queue, what was sent, had_first_interrupt and is_running stay as
\* they are, the store is not held up by anything the consumer does, and the
\* producer is back at readline.
C28_InterruptWhileRunning ==
    [][/\ (ppc = "match" /\ readline = "Interrupted" /\ is_running /\ ProducerStep) =>
             /\ ppc' = "int_abort"
             /\ UNCHANGED <<shared, had_first_interrupt, sent>>
       /\ ppc = "int_abort" => ENABLED ProducerIntAbort
       /\ (ppc = "int_abort" /\ ProducerStep) =>
             /\ abort'
             /\ ppc' = "read"
             /\ UNCHANGED <<is_running, queue, had_first_interrupt, sent>>]_vars

C28_Witness ==
    /\ ppc = "read"
    /\ abort
    /\ abortBy = "Interrupted"
    /\ is_running
    /\ ~had_first_interrupt
    /\ double_ctrlc
    /\ queue = <<>>
    /\ cpc = "event"

\* C29: a failed client.request ends the line at every attempt number: request()
\* has printed the error, is_running is false, no sleep is taken and the
\* consumer is back at rx.recv().
C29_ConnectFailureNotRetried ==
    [][RequestConnect("refused") =>
          /\ cpc' = "recv"
          /\ ~is_running'
          /\ attempts' = Append(attempts, "refused")
          /\ finished' = finished + 1
          /\ sleeps' = sleeps
          /\ cur' = cur]_vars

C29_Witness ==
    /\ cpc = "recv"
    /\ attempts = <<"refused">>
    /\ sleeps = 0
    /\ count = 2
    /\ ~is_running

\* C30: an empty line is never sent and never changes had_first_interrupt; read
\* while is_running is true it stores abort; either way the producer is back at
\* readline.
C30_EmptyLine ==
    [][(ProducerStep /\ readline = "Ok" /\ line = NoLine) =>
         /\ UNCHANGED <<queue, sent, had_first_interrupt>>
         /\ ppc = "match" => ppc' = (IF is_running THEN "line_abort" ELSE "read")
         /\ ppc = "line_abort" => (abort' /\ ppc' = "read")]_vars

C30_Witness ==
    /\ ppc = "read"
    /\ abort
    /\ abortBy = "Ok"
    /\ is_running
    /\ had_first_interrupt
    /\ Len(sent) = 1
    /\ queue = <<>>

\* C31: during the backoff sleep between two attempts of a line is_running
\* stays true and an interrupt handled during that sleep takes the abort
\* branch; while the abort stored by it is pending, the next attempt leaves
\* the handling of a frame only by observing that abort (prompt.rs 275)
C31_BackoffAbortObserved ==
    [][/\ (cpc = "sleep" => is_running)
       /\ (cpc = "sleep" /\ ppc = "match" /\ readline = "Interrupted" /\ ProducerStep)
             => ppc' = "int_abort"
       /\ \A ev \in Events :
             (abort /\ abortBy = "Interrupted" /\ abortWhen = "sleep" /\ RequestEvent(ev))
                => cpc' \in {"abort_reset", "panicked"}]_vars

\* a line has been sent and the consumer has not yet entered request() for it
LineNotStarted ==
    \/ \E i \in 1..Len(queue) : queue[i].some
    \/ cpc = "call" /\ attempts = <<>>

\* C32: an interrupt handled after a line was enqueued while is_running is
\* still false is an idle interrupt: it leaves abort alone and is the first
\* interrupt (had_first_interrupt is stored, nothing is sent) or the exiting
\* one; the exit stores no abort either, and the consumer takes the sentinel
\* only when every line sent before it has been processed to its end
C32_InterruptBeforeRunning ==
    [][/\ (ppc = "match" /\ readline = "Interrupted" /\ ~is_running /\ LineNotStarted
              /\ ProducerStep)
             => /\ abort' = abort
                /\ queue' = queue
                /\ IF double_ctrlc /\ ~had_first_interrupt
                   THEN had_first_interrupt' /\ ppc' = "read"
                   ELSE ppc' = "int_exit"
       /\ (ppc = "int_exit" /\ ProducerStep)
             => /\ abort' = abort
                /\ ppc' \in {"join", "panicked"}
                /\ ppc' = "join" => queue' = Append(queue, None)
       /\ (readline = "Interrupted" /\ cpc = "recv" /\ cpc' = "done")
             => /\ Len(started) = LinesSent
                /\ finished = LinesSent
                /\ attempts' = attempts]_vars

\* the exiting interrupt came while the line was still waiting in the channel
C32_Witness ==
    /\ double_ctrlc
    /\ had_first_interrupt
    /\ readline = "Interrupted"
    /\ queue = <<Some(<<1>>), None>>
    /\ started = <<>>
    /\ ~is_running
    /\ ~abort

\* the consumer thread has left its loop
ConsumerLeft == cpc \in {"done", "panicked"}

\* C33: the producer sends the sentinel at most once, sends nothing after it
\* and leaves its loop with the step that sends it; the consumer leaves its
\* loop only at rx.recv(), on the sentinel or on a closed channel, and that
\* step stores abort = true
C33_SentinelLastAndConsumerExit ==
    [][/\ Len(Sentinels') <= 1
       /\ Sentinels # <<>> => sent' = sent
       /\ (sent' # sent /\ ~sent'[Len(sent')].some) => (ppc # "join" /\ ppc' = "join")
       /\ (~ConsumerLeft /\ ConsumerLeft')
             => /\ cpc = "recv"
                /\ \/ queue # <<>> /\ ~Head(queue).some
                   \/ queue = <<>> /\ ppc = "exited"
                /\ abort']_vars

====
